---- MODULE Spec2Model ----
(***************************************************************************)
(* Verification gate of the bot: the SubGram webhook endpoint              *)
(* (src/bot/webhook.py), the inline check middleware                       *)
(* (src/bot/middlewares.py) and the SubGram client (src/bot/subgram.py).   *)
(* The store (bot/database.py) and the start flow (bot/handlers.py) are    *)
(* not part of the sources at hand; the store is modelled from its         *)
(* interface in spec.md section 2/3.                                       *)
(***************************************************************************)
EXTENDS Integers, Sequences, FiniteSets, TLC

VARIABLES
    db,      \* the users table: telegram_id -> row (or the absent row)
    served,  \* which of the two registrations of POST /subgram_webhook answers
    flyer,   \* SubgramCheckMiddleware._flyer: "none" or "set"
    wh,      \* the webhook request in flight: position and locals of the handler
    last,    \* what the most recent handler step received and did
    hist,    \* the current run of identical webhook entries (uid, status)
    inflight, \* the middleware calls suspended at an await: slot -> locals
    frames,  \* the webhook requests suspended at an await: delivery -> locals
    ready,   \* the ready created by the webhook that have not run yet, oldest first
    seen     \* what has happened to the followed user since start-up

vars == <<db, served, flyer, wh, last, hist, inflight, frames, ready, seen>>

----------------------------------------------------------------------------
(* Bounds *)

\* entries of one webhook batch
MaxBatch == 2
\* length of a run of identical deliveries that is followed
MaxDeliveries == 2
\* cap of the balance counter
MaxBalance == 2
\* entries of the sponsors list of one answer
MaxSponsors == 2
\* middleware calls interleaved with the webhook requests
MaxCalls == 1

Users == {1, 2}
\* Python's None where an id is expected
NoId == 0

NoName == "<none>"

----------------------------------------------------------------------------
(* The store, bot/database.py (interface of spec.md section 2) *)

Absent ==
    [exists |-> FALSE, verified |-> FALSE, referred_by |-> NoId,
     username |-> NoName, balance |-> 0]

get_user(d, id) == d[id]

\* db.create_user(telegram_id, 0, referred_by, username): create if absent
create_user(d, id, ref, name) ==
    IF d[id].exists THEN d
    ELSE [d EXCEPT ![id] = [exists |-> TRUE, verified |-> FALSE,
                            referred_by |-> ref, username |-> name,
                            balance |-> 0]]

\* db.set_flyer_verified(telegram_id, flag): updates the row when there is one
set_flyer_verified(d, id, flag) ==
    IF d[id].exists THEN [d EXCEPT ![id].verified = flag] ELSE d

update_username(d, id, name) ==
    IF d[id].exists THEN [d EXCEPT ![id].username = name] ELSE d

\* (mutant) a store whose assign_referrer overwrites
assign_referrer_overwrite(d, id, ref) ==
    IF d[id].exists THEN [d EXCEPT ![id].referred_by = ref] ELSE d

\* db.assign_referrer(telegram_id, referrer): set once
assign_referrer(d, id, ref) ==
    IF d[id].exists /\ d[id].referred_by = NoId
    THEN [d EXCEPT ![id].referred_by = ref] ELSE d

\* db.update_balance(telegram_id, delta): increments the row when there is one
update_balance(d, id, delta) ==
    IF id \in Users /\ d[id].exists
    THEN [d EXCEPT ![id].balance = d[id].balance + delta] ELSE d

----------------------------------------------------------------------------
(* webhook.py: _coerce_int *)

Digits == {"0", "1", "2", "3", "4", "5", "6", "7", "8", "9"}

DigitVal(c) ==
    CASE c = "0" -> 0 [] c = "1" -> 1 [] c = "2" -> 2 [] c = "3" -> 3
      [] c = "4" -> 4 [] c = "5" -> 5 [] c = "6" -> 6 [] c = "7" -> 7
      [] c = "8" -> 8 [] c = "9" -> 9

RECURSIVE LStrip(_)
LStrip(s) == IF s # <<>> /\ Head(s) = " " THEN LStrip(Tail(s)) ELSE s

RECURSIVE RStrip(_)
RStrip(s) ==
    IF s # <<>> /\ s[Len(s)] = " " THEN RStrip(SubSeq(s, 1, Len(s) - 1)) ELSE s

\* str.strip()
Strip(s) == RStrip(LStrip(s))

IsDigits(s) == s # <<>> /\ \A i \in 1..Len(s) : s[i] \in Digits

RECURSIVE DecimalValue(_)
DecimalValue(s) ==
    IF s = <<>> THEN 0
    ELSE 10 * DecimalValue(SubSeq(s, 1, Len(s) - 1)) + DigitVal(s[Len(s)])

\* a JSON value of the field user_id: absent/null, a number, a string, another type
RawNone == [t |-> "none", v |-> 0, s |-> <<>>]
RawInt(i) == [t |-> "int", v |-> i, s |-> <<>>]
RawStr(s) == [t |-> "str", v |-> 0, s |-> s]
RawOther == [t |-> "other", v |-> 0, s |-> <<>>]

\* _coerce_int(value): NoId stands for None
_coerce_int(value) ==
    CASE value.t = "none" -> NoId
      [] value.t = "int" -> value.v
      [] value.t = "str" ->
            IF IsDigits(Strip(value.s)) THEN DecimalValue(Strip(value.s))
            ELSE NoId
      [] OTHER -> NoId

----------------------------------------------------------------------------
(* webhook.py: the endpoint POST /subgram_webhook *)

\* settings.subgram_api_key and the values of the Api-Key header
SecretKey == "key-1"
NoKey == "<no header>"
HeaderKeys == {SecretKey, "key-2", NoKey}

\* the request body: not JSON, JSON that is no object, an object whose
\* "webhooks" is no list, an object with a list of events
Bodies == {"notjson", "notobject", "nolist", "batch"}

Statuses == {"subscribed", "notgetted", "unsubscribed", "other"}
EntryNames == {NoName, "ann"}

\* user_id values; those that coerce to a number coerce to a key of Users
BadRawIds == {RawNone, RawOther, RawStr(<<"1", "x">>), RawStr(<<" ">>)}

NonDict ==
    [dict |-> FALSE, user_id |-> RawNone, status |-> "other", username |-> NoName]

\* the entries of a batch: no object, an object without a usable user_id,
\* an object with a numeric user_id, one with a numeric string
Entries ==
    {NonDict}
    \cup [dict : {TRUE}, user_id : BadRawIds, status : {"subscribed"},
          username : {NoName}]
    \cup [dict : {TRUE}, user_id : {RawInt(u) : u \in Users}, status : Statuses,
          username : EntryNames]
    \cup [dict : {TRUE}, user_id : {RawStr(<<" ", "1", " ">>)}, status : Statuses,
          username : {NoName}]

AsBool(b) == IF b THEN "true" ELSE "false"

\* one call of the store that writes, with whether the row was there
Write(call, existed) == [call |-> call, existed |-> existed]

\* _ensure_user_record(telegram_id, username); writes are in call order
_ensure_user_record(d, id, username) ==
    LET user == get_user(d, id) IN
    IF ~user.exists
    THEN LET d1 == create_user(d, id, NoId, username) IN
         [db |-> d1, user |-> get_user(d1, id),
          writes |-> <<Write("create_user", FALSE)>>]
    ELSE IF username # NoName /\ user.username # username
    THEN [db |-> update_username(d, id, username),
          user |-> [user EXCEPT !.username = username],
          writes |-> <<Write("update_username", TRUE)>>]
    ELSE [db |-> d, user |-> user, writes |-> <<>>]

\* what one iteration of "for event in events" leaves behind
Iteration(d, av, crash, start, notify, writes) ==
    [db |-> d, av |-> av, crash |-> crash, start |-> start,
     notify |-> notify, writes |-> writes]

\* (mutant) only a request without the header is turned away
KeyRejectedWhenMissing(api_key) == api_key = NoKey

\* the api-key test of lines 117-120 / 228-231
KeyRejected(api_key) == api_key # SecretKey

\* the "unsubscribed" branch, the same in both registrations (187-220, 283-316)
UnsubscribedBranch(d, av, tid, username) ==
    LET d1 == set_flyer_verified(d, tid, FALSE)
        ens == _ensure_user_record(d1, tid, username)
    IN Iteration(ens.db, av, FALSE, FALSE, TRUE,
                 <<Write("set_flyer_verified", d[tid].exists)>> \o ens.writes)

\* first registration, lines 133-222; av is the local already_verified,
\* "unbound" until a subscribed/notgetted entry of this request assigned it
LoopBody1(d, av, e) ==
    IF ~e.dict THEN Iteration(d, av, FALSE, FALSE, FALSE, <<>>)
    ELSE
    LET tid == _coerce_int(e.user_id) IN
    IF tid = NoId THEN Iteration(d, av, FALSE, FALSE, FALSE, <<>>)
    ELSE
    LET sub == e.status \in {"subscribed", "notgetted"}
        ens == IF sub THEN _ensure_user_record(d, tid, e.username)
               ELSE [db |-> d, user |-> get_user(d, tid), writes |-> <<>>]
        av1 == IF sub THEN AsBool(ens.user.exists /\ ens.user.verified) ELSE av
    IN
    IF av1 = "unbound"
    THEN \* line 150 reads a local that was never assigned: UnboundLocalError
         Iteration(ens.db, av1, TRUE, FALSE, FALSE, ens.writes)
    ELSE IF av1 = "false"
    THEN \* lines 150-185: the start task is created, then continue
         Iteration(ens.db, av1, FALSE, TRUE, FALSE, ens.writes)
    ELSE IF e.status = "unsubscribed"
    THEN LET u == UnsubscribedBranch(ens.db, av1, tid, e.username) IN
         [u EXCEPT !.writes = ens.writes \o u.writes]
    ELSE \* line 222: logged as unhandled
         Iteration(ens.db, av1, FALSE, FALSE, FALSE, ens.writes)

\* second registration, lines 244-318
LoopBody2(d, av, e) ==
    IF ~e.dict THEN Iteration(d, av, FALSE, FALSE, FALSE, <<>>)
    ELSE
    LET tid == _coerce_int(e.user_id) IN
    IF tid = NoId THEN Iteration(d, av, FALSE, FALSE, FALSE, <<>>)
    ELSE IF e.status \in {"subscribed", "notgetted"}
    THEN LET ens == _ensure_user_record(d, tid, e.username)
             av1 == AsBool(ens.user.exists /\ ens.user.verified)
             d1 == set_flyer_verified(ens.db, tid, TRUE)
         IN Iteration(d1, av1, FALSE, av1 = "false", FALSE,
                      ens.writes \o <<Write("set_flyer_verified", ens.db[tid].exists)>>)
    ELSE IF e.status = "unsubscribed"
    THEN UnsubscribedBranch(d, av, tid, e.username)
    ELSE Iteration(d, av, FALSE, FALSE, FALSE, <<>>)

LoopBody(reg, d, av, e) == IF reg = 1 THEN LoopBody1(d, av, e) ELSE LoopBody2(d, av, e)

NoHist == [uid |-> NoId, status |-> "other", n |-> 0, starts |-> 0,
           notes |-> 0, verified0 |-> FALSE]

\* the requests that arrive: a header and a body
Requests ==
    {[key |-> k, body |-> "batch"] : k \in HeaderKeys}
    \cup {[key |-> SecretKey, body |-> b] : b \in Bodies}
    \cup {[key |-> "key-2", body |-> "notjson"]}

\* the users whose runs of deliveries are followed; entries for the others
\* do not interrupt a run
Followed == {1}

\* the run of identical deliveries after one more entry (uid, status)
Delivered(h, uid, status, wasVerified, it) ==
    LET s == IF it.start THEN 1 ELSE 0
        m == IF it.notify THEN 1 ELSE 0
    IN IF h.uid = uid /\ h.status = status /\ h.n < MaxDeliveries
       THEN [h EXCEPT !.n = h.n + 1, !.starts = h.starts + s, !.notes = h.notes + m]
       ELSE [uid |-> uid, status |-> status, n |-> 1, starts |-> s,
             notes |-> m, verified0 |-> wasVerified]

NoWebhook ==
    [op |-> "none", key |-> NoKey, body |-> "notjson", resp |-> "none",
     dict |-> FALSE, uid |-> NoId, status |-> "other", existed |-> FALSE,
     wasVerified |-> FALSE, avIn |-> "unbound", dbChanged |-> FALSE,
     start |-> FALSE, notify |-> FALSE, writes |-> <<>>, alone |-> TRUE]

\* the store writes and side effects of one iteration
Effects(it) ==
    [db |-> it.db, crash |-> it.crash, start |-> it.start, notify |-> it.notify,
     writes |-> it.writes]

WhIdle == [pc |-> "idle", av |-> "unbound", n |-> 0]

\* lines 116-131 / 227-242: the request arrives
Receive(api_key, body) ==
    /\ wh.pc = "idle"
    /\ LET rejected == KeyRejected(api_key)
           resp == IF rejected \/ body = "notjson" THEN "ok"
                   ELSE IF body = "notobject" THEN "crash"   \* payload.get
                   ELSE IF body = "nolist" THEN "ok"
                   ELSE "pending"
       IN /\ wh' = [pc |-> IF resp = "pending" THEN "loop" ELSE "idle",
                    av |-> "unbound", n |-> 0]
          /\ last' = [NoWebhook EXCEPT !.op = "receive", !.key = api_key,
                                       !.body = body, !.resp = resp]
    /\ UNCHANGED <<db, served, flyer, hist, inflight>>

\* one iteration of the loop over the batch
Event(e) ==
    /\ wh.pc = "loop"
    /\ wh.n < MaxBatch
    /\ \E it \in {LoopBody(served, db, wh.av, e)},
          tid \in {IF e.dict THEN _coerce_int(e.user_id) ELSE NoId} :
          /\ db' = it.db
          /\ wh' = [pc |-> IF it.crash THEN "idle" ELSE "loop",
                    av |-> it.av, n |-> wh.n + 1]
          /\ last' = [NoWebhook EXCEPT
                         !.op = "event",
                         !.resp = IF it.crash THEN "crash" ELSE "pending",
                         !.dict = e.dict, !.uid = tid, !.status = e.status,
                         !.key = SecretKey, !.body = "batch",
                         !.existed = (tid # NoId /\ db[tid].exists),
                         !.wasVerified = (tid # NoId /\ db[tid].verified),
                         !.avIn = wh.av,
                         !.dbChanged = (it.db # db),
                         !.start = it.start, !.notify = it.notify,
                         !.writes = it.writes,
                         \* the same entry as the only one of its request
                         !.alone = (Effects(it)
                                      = Effects(LoopBody(served, db, "unbound", e)))]
          /\ hist' = IF tid \notin Followed THEN hist
                     ELSE Delivered(hist, tid, e.status, db[tid].verified, it)
    /\ UNCHANGED <<served, flyer, inflight>>

\* line 224 / 320: return _SUCCESS_RESPONSE
Return ==
    /\ wh.pc = "loop"
    /\ wh' = [wh EXCEPT !.pc = "idle"]
    /\ last' = [last EXCEPT !.op = "return", !.resp = "ok"]
    /\ UNCHANGED <<db, served, flyer, hist, inflight>>

----------------------------------------------------------------------------
(* subgram.py: SubgramClient.get_sponsors *)

\* how the HTTP exchange with the oracle ends
Transports == {"json", "timeout", "client_error", "bad_json", "exception"}

\* response["additional"]["sponsors"]: a list of entries, or no list at all
NoSponsorList == [list |-> FALSE, items |-> <<>>]
SponsorList(items) == [list |-> TRUE, items |-> items]

NoLink == "<none>"

\* one entry of the sponsors list: a dict with the keys available_now
\* ("missing", "true", "false"), status and link, or something that is no dict
Sponsor(available_now, status, link) ==
    [dict |-> TRUE, available_now |-> available_now, status |-> status, link |-> link]
NotASponsor ==
    [dict |-> FALSE, available_now |-> "missing", status |-> "missing", link |-> NoLink]

NoResponse == [none |-> TRUE, status |-> "missing", code |-> 0,
               message |-> FALSE, sponsors |-> NoSponsorList, reg_url |-> FALSE]

Resp(status, code, message, tasks, url) ==
    [none |-> FALSE, status |-> status, code |-> code, message |-> message,
     sponsors |-> IF tasks THEN SponsorList(<<Sponsor("true", "unsubscribed", "L1")>>)
                  ELSE NoSponsorList,
     reg_url |-> url]

\* the exception each failing exchange raises inside the try of line 57
\* (response.json(content_type=None) never raises ContentTypeError: a body
\* that is no JSON raises json.JSONDecodeError)
Raises(transport) ==
    CASE transport = "timeout" -> "TimeoutError"
      [] transport = "client_error" -> "ClientError"
      [] transport = "bad_json" -> "JSONDecodeError"
      [] transport = "exception" -> "RuntimeError"

\* (mutant) the clauses without the final "except Exception"
ExceptClausesNarrow == {"ContentTypeError", "TimeoutError", "ClientError"}

\* the except clauses of lines 65 and 88-100
ExceptClauses ==
    {"ContentTypeError", "TimeoutError", "ClientError",
     "JSONDecodeError", "RuntimeError"}

\* lines 57-101: the decoded body is returned (whatever the HTTP status);
\* a caught exception ends in "return None", any other leaves the client
get_sponsors(transport, body) ==
    IF transport = "json"
    THEN [raised |-> FALSE, response |-> body]
    ELSE [raised |-> Raises(transport) \notin ExceptClauses, response |-> NoResponse]

----------------------------------------------------------------------------
(* middlewares.py: SubgramCheckMiddleware *)

BLOCKING_STATUSES == {"warning", "gender", "age", "register"}
\* LANGUAGE_BLOCK_MESSAGES: the blocked prefixes
BlockedPrefixes == {<<"f", "a">>, <<"a", "r">>, <<"t", "r">>}

LowerChar(c) ==
    CASE c = "F" -> "f" [] c = "A" -> "a" [] c = "R" -> "r" [] c = "E" -> "e"
      [] c = "T" -> "t" [] OTHER -> c

\* str.lower()
Lower(s) == [i \in 1..Len(s) |-> LowerChar(s[i])]

\* str.startswith(prefix)
StartsWith(s, prefix) ==
    Len(s) >= Len(prefix) /\ SubSeq(s, 1, Len(prefix)) = prefix

\* _get_language_block_message(language_code) is not None; <<>> is None or ""
_get_language_block_message(language_code) ==
    /\ language_code # <<>>
    /\ \E prefix \in BlockedPrefixes : StartsWith(Lower(language_code), prefix)

NoLang == <<>>
LangCodes == {NoLang, <<"e", "n">>, <<"F", "a">>, <<"t", "r", "-", "T", "R">>}

\* An event: a Message (its text: the command word and the first argument)
\* or a CallbackQuery (its data split at "_", and whether it has a message)
NoArg == <<>>
Msg(cmd, arg) ==
    [type |-> "message", cmd |-> cmd, arg |-> arg, data |-> <<>>, has_message |-> TRUE]
Cb(data, has) ==
    [type |-> "callback", cmd |-> "", arg |-> NoArg, data |-> data, has_message |-> has]

RefArg(n) == <<"r", "e", "f">> \o n

Events ==
    {Msg("hi", NoArg), Msg("/start", NoArg),
     Msg("/start", RefArg(<<"1">>)), Msg("/start", RefArg(<<"2">>)),
     Msg("/start", <<"R", "E", "F", "3">>), Msg("/start", RefArg(<<"x">>)),
     Cb(<<"subgram-op">>, TRUE), Cb(<<"subgram", "gender", "male">>, TRUE),
     Cb(<<"subgram", "age", "c3">>, TRUE), Cb(<<"menu">>, TRUE),
     Cb(<<"subgram-op">>, FALSE), Cb(<<"menu">>, FALSE)}

\* text.startswith("/start") on the command word
IsStartText(cmd) == cmd \in {"/start", "/startapp"}

\* _resolve_chat_id(event) is not None
_resolve_chat_id(event) == event.type = "message" \/ event.has_message

\* _is_subgram_callback(event): data.startswith("subgram")
_is_subgram_callback(event) ==
    /\ event.type = "callback"
    /\ event.data # <<>>
    /\ event.data[1] \in {"subgram", "subgram-op"}

\* (mutant) the handler is called for every event
_maybe_call_subgram_handler_always(event) == TRUE

\* _maybe_call_subgram_handler: the handler runs only for a gate callback
_maybe_call_subgram_handler(event) == _is_subgram_callback(event)

\* (mutant) the referrer is taken as it comes, the sender's own id included
_extract_referred_by_any(event, telegram_id) ==
    IF event.type # "message" THEN NoId
    ELSE IF ~IsStartText(event.cmd) THEN NoId
    ELSE IF event.arg = NoArg THEN NoId
    ELSE IF ~StartsWith(Lower(event.arg), <<"r", "e", "f">>) THEN NoId
    ELSE LET suffix == SubSeq(event.arg, 4, Len(event.arg)) IN
         IF ~IsDigits(suffix) THEN NoId ELSE DecimalValue(suffix)

\* _extract_referred_by(event, telegram_id); NoId stands for None
_extract_referred_by(event, telegram_id) ==
    IF event.type # "message" THEN NoId
    ELSE IF ~IsStartText(event.cmd) THEN NoId
    ELSE IF event.arg = NoArg THEN NoId
    ELSE IF ~StartsWith(Lower(event.arg), <<"r", "e", "f">>) THEN NoId
    ELSE LET suffix == SubSeq(event.arg, 4, Len(event.arg)) IN
         IF ~IsDigits(suffix) THEN NoId
         ELSE IF DecimalValue(suffix) = telegram_id THEN NoId
         ELSE DecimalValue(suffix)

\* (mutant) the answer of the pressed button is dropped
_extract_additional_parameters_none(event) == [gender |-> "", age |-> ""]

\* _extract_additional_parameters(event): data.split("_")[2] of the data
\* "subgram_gender_<x>" / "subgram_age_<x>"; "" stands for an absent key
_extract_additional_parameters(event) ==
    IF event.type # "callback" \/ event.data = <<>> THEN [gender |-> "", age |-> ""]
    ELSE IF Len(event.data) >= 3 /\ event.data[1] = "subgram" /\ event.data[2] = "gender"
    THEN [gender |-> event.data[3], age |-> ""]
    ELSE IF Len(event.data) >= 3 /\ event.data[1] = "subgram" /\ event.data[2] = "age"
    THEN [gender |-> "", age |-> event.data[3]]
    ELSE [gender |-> "", age |-> ""]

\* _remember_user_context(telegram_id, username, referred_by, user_record):
\* the store and the (mutated) user_record object afterwards
_remember_user_context(d, telegram_id, username, referred_by, user_record) ==
    IF ~user_record.exists
    THEN [db |-> create_user(d, telegram_id, referred_by, username),
          record |-> user_record, writes |-> {"create_user"}]
    ELSE
    LET rename == username # NoName /\ username # user_record.username
        d1 == IF rename THEN update_username(d, telegram_id, username) ELSE d
        r1 == IF rename THEN [user_record EXCEPT !.username = username] ELSE user_record
        assign == /\ referred_by # NoId
                  /\ referred_by # telegram_id
                  /\ r1.referred_by = NoId
        d2 == IF assign THEN assign_referrer(d1, telegram_id, referred_by) ELSE d1
        r2 == IF assign THEN [r1 EXCEPT !.referred_by = referred_by] ELSE r1
    IN [db |-> d2, record |-> r2,
        writes |-> (IF rename THEN {"update_username"} ELSE {})
                   \cup (IF assign THEN {"assign_referrer"} ELSE {})]

\* a prompt: what its text is made of and the buttons of its keyboard, in
\* the order they were added; NoPrompt is None
NoPrompt == [none |-> TRUE, text |-> "", tasks |-> <<>>, actions |-> <<>>]
Prompt(text, tasks, actions) ==
    [none |-> FALSE, text |-> text, tasks |-> tasks, actions |-> actions]

UrlButton(link) == [kind |-> "url", target |-> link]
CallbackButton(data) == [kind |-> "callback", target |-> data]
WebAppButton == [kind |-> "web_app", target |-> "registration_url"]

\* (mutant) completed sponsors are rendered as well
RenderedWhateverStatus(sponsor) ==
    /\ sponsor.dict
    /\ sponsor.available_now \in {"missing", "true"}
    /\ sponsor.link # NoLink

\* lines 562-579: the sponsor is rendered (none of the three "continue")
Rendered(sponsor) ==
    /\ sponsor.dict
    /\ sponsor.available_now \in {"missing", "true"}   \* .get("available_now", True)
    /\ sponsor.status \in {"missing", "unsubscribed"}  \* in {None, "unsubscribed"}
    /\ sponsor.link # NoLink

\* (mutant) the sponsor buttons go into a keyboard of their own
_build_sponsor_prompt_own_keyboard(response, builder, base_text) ==
    IF ~response.sponsors.list THEN NoPrompt
    ELSE LET shown == SelectSeq(response.sponsors.items, Rendered)
             tasks == [i \in 1..Len(shown) |-> shown[i].link]
         IN IF tasks = <<>> THEN NoPrompt
            ELSE Prompt(base_text, tasks,
                        [i \in 1..Len(shown) |-> UrlButton(shown[i].link)]
                            \o <<CallbackButton("subgram-op")>>)

\* _build_sponsor_prompt(response, builder=..., base_text=...): builder is
\* the sequence of buttons already in the keyboard, base_text "none" is None
_build_sponsor_prompt(response, builder, base_text) ==
    IF ~response.sponsors.list THEN NoPrompt
    ELSE LET shown == SelectSeq(response.sponsors.items, Rendered)
             tasks == [i \in 1..Len(shown) |-> shown[i].link]
         IN IF tasks = <<>> THEN NoPrompt
            ELSE Prompt(IF base_text # "none" THEN base_text
                        ELSE IF response.message THEN "message" ELSE "none",
                        tasks,
                        builder \o [i \in 1..Len(shown) |-> UrlButton(shown[i].link)]
                                \o <<CallbackButton("subgram-op")>>)

AgeCategories == <<"c1", "c2", "c3", "c4", "c5", "c6">>

\* _build_blocking_prompt(response, status)
_build_blocking_prompt(response, status) ==
    CASE status = "warning" -> _build_sponsor_prompt(response, <<>>, "none")
      [] status = "gender" ->
            Prompt("gender", <<>>, <<CallbackButton(<<"subgram", "gender", "male">>),
                                     CallbackButton(<<"subgram", "gender", "female">>)>>)
      [] status = "age" ->
            Prompt("age", <<>>,
                   [i \in 1..Len(AgeCategories) |->
                       CallbackButton(<<"subgram", "age", AgeCategories[i]>>)])
      [] status = "register" ->
            LET builder == IF response.reg_url THEN <<WebAppButton>> ELSE <<>>
                base == IF response.message THEN "message" ELSE "register"
                prompt == _build_sponsor_prompt(response, builder, base)
            IN IF ~prompt.none THEN prompt
               ELSE IF ~response.reg_url THEN NoPrompt
               ELSE Prompt(base, <<>>, builder \o <<CallbackButton("subgram-op")>>)
      [] OTHER -> NoPrompt

\* _send_blocking_message returns True whether or not the send succeeded, and
\* so does _handle_blocking_status, with or without a prompt (lines 323-334)
_handle_blocking_status(response, status) == TRUE

\* (mutant) the start flow is run for a /start message as well
_trigger_start_always(event) == event.type = "message" \/ event.has_message

\* _trigger_start(event, data) reaches run_start_flow
_trigger_start(event) ==
    IF event.type = "message" THEN ~IsStartText(event.cmd)
    ELSE event.has_message

\* _handle_flyer_fallback: the outcome of self._flyer.check
FlyerOutcomes == {"allowed", "rejected", "api_error", "exception"}

_handle_flyer_fallback(configured, outcome) ==
    IF configured = "none" THEN TRUE
    ELSE outcome # "rejected"

\* (mutant) the referrer is notified whether or not the balance was written
_reward_referrer_notify_always(d, referrer_id, balanceOk) ==
    [db |-> IF balanceOk THEN update_balance(d, referrer_id, 1) ELSE d,
     awarded |-> balanceOk, notified |-> TRUE,
     writes |-> IF balanceOk THEN {"update_balance"} ELSE {}]

\* _reward_referrer_for_fake_warning(bot, referrer_id, ...): db.update_balance
\* succeeds or raises (balanceOk); the message to the referrer is sent only
\* after a write that did not raise (lines 286-296)
_reward_referrer_for_fake_warning(d, referrer_id, balanceOk) ==
    LET awarded == balanceOk IN
    [db |-> IF awarded THEN update_balance(d, referrer_id, 1) ELSE d,
     awarded |-> awarded, notified |-> awarded,
     writes |-> IF awarded THEN {"update_balance"} ELSE {}]

\* the sponsor entries an answer can list
SponsorEntries ==
    {NotASponsor}
    \cup {Sponsor(a, st, "L1") : a \in {"missing", "true", "false"},
                                 st \in {"missing", "unsubscribed", "subscribed"}}
    \cup {Sponsor("true", "unsubscribed", l) : l \in {NoLink, "L2"}}

\* the sponsors of an answer: no list, or a list of up to MaxSponsors entries
SponsorLists ==
    {NoSponsorList}
    \cup {SponsorList(items) :
            items \in UNION {[1..n -> SponsorEntries] : n \in 0..MaxSponsors}}

\* the blocking answers handed to the prompt policy
PromptResponses ==
    {[none |-> FALSE, status |-> st, code |-> 200, message |-> m,
      sponsors |-> NoSponsorList, reg_url |-> FALSE] :
        st \in {"gender", "age"}, m \in BOOLEAN}
    \cup {[none |-> FALSE, status |-> "warning", code |-> 200, message |-> m,
           sponsors |-> sp, reg_url |-> FALSE] :
             m \in BOOLEAN, sp \in SponsorLists}
    \cup {[none |-> FALSE, status |-> "register", code |-> 200, message |-> m,
           sponsors |-> sp, reg_url |-> u] :
             m \in BOOLEAN, sp \in SponsorLists, u \in BOOLEAN}

\* line 323: prompt = self._build_blocking_prompt(response, status)
BuildPrompt(response) ==
    /\ last' = [op |-> "prompt", response |-> response,
                prompt |-> _build_blocking_prompt(response, response.status)]
    /\ UNCHANGED <<db, served, flyer, wh, hist, inflight>>

\* lines 117-128: what the query to the oracle carries besides the ids
user_payload(event, username) ==
    LET extra_params == _extract_additional_parameters(event) IN
    [username |-> username, gender |-> extra_params.gender,
     age |-> extra_params.age, action |-> "subscribe"]

\* what one call of the middleware did
Decision(d, queried, handler, prompt, start, reward, rewardNote, acks, writes) ==
    [db |-> d, raised |-> FALSE, queried |-> queried, handler |-> handler,
     prompt |-> prompt, start |-> start, reward |-> reward,
     rewardNote |-> rewardNote, acks |-> acks, writes |-> writes]

Ack(gate) == IF gate THEN 1 ELSE 0

\* lines 136-220: from the oracle's answer on
AfterOracle(d, writes, u, event, was_verified, referred_by, user_record, response, flyerCfg, flyerOut, balanceOk) ==
    LET gate == _is_subgram_callback(event) IN
    IF response.none
    THEN Decision(d, TRUE, _maybe_call_subgram_handler(event), "retry", FALSE,
                  NoId, FALSE, Ack(gate), writes)
    ELSE
    LET status == response.status
        effective_referrer ==
            IF referred_by # NoId THEN referred_by
            ELSE IF user_record.exists THEN user_record.referred_by ELSE NoId
        unknown == response.code = 404
        rewarded == unknown /\ effective_referrer # NoId
        rw == IF rewarded
              THEN _reward_referrer_for_fake_warning(d, effective_referrer, balanceOk)
              ELSE [db |-> d, awarded |-> FALSE, notified |-> FALSE, writes |-> {}]
        d1 == rw.db
        w1 == writes \cup rw.writes
        reward == IF rw.awarded THEN effective_referrer ELSE NoId
        flyer_allowed == IF unknown THEN _handle_flyer_fallback(flyerCfg, flyerOut) ELSE TRUE
    IN
    IF ~flyer_allowed
    THEN Decision(d1, TRUE, _maybe_call_subgram_handler(event), "antifraud", FALSE,
                  reward, rw.notified, Ack(gate), w1)
    ELSE IF status \in BLOCKING_STATUSES /\ _handle_blocking_status(response, status)
    THEN Decision(d1, TRUE, FALSE,
                  IF _build_blocking_prompt(response, status).none THEN "generic" ELSE "tasks",
                  FALSE, reward, rw.notified, Ack(gate), w1)
    ELSE IF status = "error"
    THEN Decision(d1, TRUE, _maybe_call_subgram_handler(event),
                  IF response.message THEN "message" ELSE "error",
                  FALSE, reward, rw.notified, Ack(gate), w1)
    ELSE Decision(set_flyer_verified(d1, u, TRUE), TRUE, TRUE, "none",
                  ~was_verified /\ flyer_allowed /\ _trigger_start(event),
                  reward, rw.notified, Ack(gate),
                  w1 \cup {"set_flyer_verified"})

\* (mutant) no fast path for a verified user
FastPathNever(was_verified, gate) == FALSE

\* line 104: a verified user's event that is no gate callback goes straight on
FastPath(was_verified, gate) == was_verified /\ ~gate

\* SubgramCheckMiddleware.__call__, lines 63-220
MiddlewareCall(d, flyerCfg, u, ctx, event, lang, username, transport, body, flyerOut, balanceOk) ==
    LET gate == _is_subgram_callback(event) IN
    IF ctx # "ok" \/ ~_resolve_chat_id(event)
    THEN Decision(d, FALSE, TRUE, "none", FALSE, NoId, FALSE, 0, {})
    ELSE
    LET user_record == get_user(d, u)
        was_verified == user_record.exists /\ user_record.verified
    IN
    IF _get_language_block_message(lang)
    THEN Decision(d, FALSE, gate, "language", FALSE, NoId, FALSE, Ack(gate), {})
    ELSE IF FastPath(was_verified, gate)
    THEN Decision(d, FALSE, TRUE, "none", FALSE, NoId, FALSE, 0, {})
    ELSE IF was_verified /\ gate
    THEN Decision(d, FALSE, TRUE, "none", FALSE, NoId, FALSE, 1, {})
    ELSE
    LET referred_by == _extract_referred_by(event, u)
        rem == _remember_user_context(d, u, username, referred_by, user_record)
        got == get_sponsors(transport, body)
    IN
    IF got.raised
    THEN [Decision(rem.db, TRUE, FALSE, "none", FALSE, NoId, FALSE, 0, rem.writes)
            EXCEPT !.raised = TRUE]
    ELSE AfterOracle(rem.db, rem.writes, u, event, was_verified, referred_by,
                     rem.record, got.response, flyerCfg, flyerOut, balanceOk)

\* the answers of the oracle
Answers200 ==
    {Resp("ok", 200, FALSE, FALSE, FALSE), Resp("missing", 200, FALSE, FALSE, FALSE),
     Resp("error", 200, TRUE, FALSE, FALSE), Resp("error", 200, FALSE, FALSE, FALSE),
     Resp("gender", 200, FALSE, FALSE, FALSE), Resp("age", 200, FALSE, FALSE, FALSE),
     Resp("warning", 200, TRUE, TRUE, FALSE), Resp("warning", 200, FALSE, FALSE, FALSE),
     Resp("register", 200, FALSE, FALSE, TRUE), Resp("register", 200, FALSE, FALSE, FALSE)}

Answers404 ==
    {Resp("ok", 404, FALSE, FALSE, FALSE), Resp("error", 404, TRUE, FALSE, FALSE),
     Resp("missing", 404, FALSE, FALSE, FALSE), Resp("warning", 404, FALSE, FALSE, FALSE)}

Run(t, b, f, ok) == [transport |-> t, body |-> b, flyerOut |-> f, balanceOk |-> ok]

\* the runs of the outside world for a call that reaches the oracle: the
\* exchange, the answer, the fallback check, whether the balance write succeeds
FailedRuns == {Run(t, NoResponse, "allowed", TRUE) : t \in Transports \ {"json"}}

OracleRuns ==
    FailedRuns
    \cup {Run("json", b, "allowed", TRUE) : b \in Answers200}
    \cup {Run("json", b, f, TRUE) : b \in Answers404, f \in FlyerOutcomes}
    \cup {Run("json", b, "allowed", FALSE) : b \in Answers404}

PlainRuns ==
    {Run("json", Resp("ok", 200, FALSE, FALSE, FALSE), "allowed", TRUE),
     Run("timeout", NoResponse, "allowed", TRUE),
     Run("json", Resp("ok", 404, FALSE, FALSE, FALSE), "allowed", TRUE)}

\* the user behind an event: language_code and username
Sender(l, n) == [lang |-> l, username |-> n]
English == <<"e", "n">>

Update(ctx, event, sender, run) ==
    [ctx |-> ctx, event |-> event, sender |-> sender, run |-> run]

\* the updates that arrive: every event with a plain run, the plain events
\* with every run, and the other senders and contexts with the plain events
PlainEvents ==
    {Msg("hi", NoArg), Cb(<<"subgram-op">>, TRUE), Msg("/start", RefArg(<<"2">>))}

Updates ==
    {Update("ok", e, Sender(English, NoName), r) : e \in Events, r \in PlainRuns}
    \cup {Update("ok", e, Sender(English, NoName), r) :
            e \in PlainEvents, r \in OracleRuns}
    \cup {Update("ok", e, Sender(l, NoName), r) :
            e \in PlainEvents, l \in LangCodes, r \in PlainRuns}
    \cup {Update("ok", Msg("hi", NoArg), Sender(English, "ann"), r) : r \in PlainRuns}
    \cup {Update(c, Msg("hi", NoArg), Sender(English, NoName), r) :
            c \in {"nouser", "nobot"}, r \in PlainRuns}

\* the users that send events to the bot
InlineUsers == {1}

\* the run of identical updates of user u that each got an answer with code
\* 404, after one more of them: how many there were and how many of them
\* incremented the referrer's balance
Repeated(h, u, up, dec, referrer) ==
    LET g == IF dec.reward # NoId THEN 1 ELSE 0 IN
    IF ~(dec.queried /\ ~dec.raised /\ up.run.transport = "json"
         /\ up.run.body.code = 404)
    THEN NoHist
    ELSE IF /\ h.status = "unknown" /\ h.uid = u /\ h.update = up
            /\ h.n < MaxDeliveries
    THEN [h EXCEPT !.n = h.n + 1, !.rewards = h.rewards + g]
    ELSE [uid |-> u, status |-> "unknown", n |-> 1, starts |-> 0, notes |-> 0,
          verified0 |-> FALSE, update |-> up, referrer |-> referrer,
          rewards |-> g]

\* one incoming update passes through the middleware
Inline(u) ==
    \E up \in Updates :
      \E dec \in {MiddlewareCall(db, flyer, u, up.ctx, up.event, up.sender.lang,
                                 up.sender.username, up.run.transport, up.run.body,
                                 up.run.flyerOut, up.run.balanceOk)} :
        LET event == up.event
            run == up.run
        IN
        /\ dec.reward \in Users /\ db[dec.reward].exists
              => db[dec.reward].balance < MaxBalance
        /\ db' = dec.db
        /\ last' = [op |-> "inline", uid |-> u, ctx |-> up.ctx,
                    type |-> event.type, gate |-> _is_subgram_callback(event),
                    startMsg |-> (event.type = "message" /\ IsStartText(event.cmd)),
                    chat |-> _resolve_chat_id(event),
                    blocked |-> _get_language_block_message(up.sender.lang),
                    ref |-> _extract_referred_by(event, u),
                    existed |-> db[u].exists,
                    wasVerified |-> db[u].verified,
                    preRef |-> db[u].referred_by,
                    transport |-> run.transport, status |-> run.body.status,
                    code |-> run.body.code, message |-> run.body.message,
                    sponsors |-> run.body.sponsors,
                    reg_url |-> run.body.reg_url, flyerOut |-> run.flyerOut,
                    balanceOk |-> run.balanceOk,
                    dbChanged |-> (dec.db # db),
                    raised |-> dec.raised, queried |-> dec.queried,
                    handler |-> dec.handler, prompt |-> dec.prompt,
                    start |-> dec.start, reward |-> dec.reward,
                    rewardNote |-> dec.rewardNote, acks |-> dec.acks,
                    writes |-> dec.writes, resp |-> "none"]
        /\ hist' = Repeated(hist, u, up, dec,
                            _extract_referred_by(event, u) # NoId
                               \/ db[u].referred_by # NoId)
        /\ UNCHANGED <<served, flyer, wh, inflight>>

\* the user presses button i of the gender or age prompt just shown: the
\* callback query with the button's callback_data goes through __call__
Press(u, i, run) ==
    /\ last.op = "prompt"
    /\ last.response.status \in {"gender", "age"}
    /\ i \in 1..Len(last.prompt.actions)
    /\ \E event \in {Cb(last.prompt.actions[i].target, TRUE)} :
       \E dec \in {MiddlewareCall(db, flyer, u, "ok", event, English, NoName,
                                  run.transport, run.body, run.flyerOut,
                                  run.balanceOk)} :
         /\ db' = dec.db
         /\ last' = [op |-> "press", uid |-> u, shown |-> last.response.status,
                     choices |-> Len(last.prompt.actions), data |-> event.data,
                     gate |-> _is_subgram_callback(event),
                     queried |-> dec.queried,
                     query |-> user_payload(event, NoName)]
    /\ UNCHANGED <<served, flyer, wh, hist, inflight>>

----------------------------------------------------------------------------

(* SubgramCheckMiddleware.__call__ step by step: two calls in flight, each
   suspended between its awaited store and oracle calls *)

Slots == {1, 2}

NoCall ==
    [pc |-> "idle", uid |-> NoId, event |-> Msg("hi", NoArg),
     username |-> NoName, was_verified |-> FALSE, record |-> Absent]

\* lines 71-113: the call returns before _remember_user_context
EndsEarly(up, was_verified) ==
    LET gate == _is_subgram_callback(up.event) IN
    \/ up.ctx # "ok"
    \/ ~_resolve_chat_id(up.event)
    \/ _get_language_block_message(up.sender.lang)
    \/ FastPath(was_verified, gate)
    \/ was_verified /\ gate

\* lines 69-113: the call starts, reads the record (line 78) and either
\* returns early or goes on to line 115 with the record it read
Begin(c, u, up) ==
    /\ inflight[c].pc = "idle"
    /\ \E user_record \in {get_user(db, u)} :
         LET was_verified == user_record.exists /\ user_record.verified IN
         /\ inflight' = [inflight EXCEPT ![c] =
                IF EndsEarly(up, was_verified) THEN NoCall
                ELSE [pc |-> "read", uid |-> u, event |-> up.event,
                      username |-> up.sender.username,
                      was_verified |-> was_verified, record |-> user_record]]
         /\ last' = [op |-> "begin", slot |-> c, uid |-> u,
                     early |-> EndsEarly(up, was_verified)]
    /\ hist' = NoHist
    /\ UNCHANGED <<db, served, flyer, wh>>

\* line 115: _remember_user_context with the record read at line 78
Remember(c) ==
    /\ inflight[c].pc = "read"
    /\ \E call \in {inflight[c]} :
       \E rem \in {_remember_user_context(
                       db, call.uid, call.username,
                       _extract_referred_by(call.event, call.uid), call.record)} :
         /\ db' = rem.db
         /\ inflight' = [inflight EXCEPT ![c] =
                [call EXCEPT !.pc = "remembered", !.record = rem.record]]
         /\ last' = [op |-> "remember", slot |-> c, uid |-> call.uid,
                     writes |-> rem.writes]
    /\ hist' = NoHist
    /\ UNCHANGED <<served, flyer, wh>>

\* lines 130-220: the oracle answers and the call runs to its end
Finish(c, run) ==
    /\ inflight[c].pc = "remembered"
    /\ \E call \in {inflight[c]} :
       \E got \in {get_sponsors(run.transport, run.body)} :
       \E dec \in {IF got.raised
                   THEN [Decision(db, TRUE, FALSE, "none", FALSE, NoId, FALSE, 0, {})
                           EXCEPT !.raised = TRUE]
                   ELSE AfterOracle(db, {}, call.uid, call.event, call.was_verified,
                                    _extract_referred_by(call.event, call.uid),
                                    call.record, got.response, flyer,
                                    run.flyerOut, run.balanceOk)} :
         /\ dec.reward \in Users /\ db[dec.reward].exists
               => db[dec.reward].balance < MaxBalance
         /\ db' = dec.db
         /\ inflight' = [inflight EXCEPT ![c] = NoCall]
         /\ last' = [op |-> "finish", slot |-> c, uid |-> call.uid,
                     handler |-> dec.handler, prompt |-> dec.prompt,
                     start |-> dec.start, reward |-> dec.reward,
                     writes |-> dec.writes,
                     status |-> IF got.raised \/ got.response.none THEN "none"
                                ELSE got.response.status,
                     code |-> got.response.code, flyerOut |-> run.flyerOut]
    /\ hist' = NoHist
    /\ UNCHANGED <<served, flyer, wh>>

\* the updates and the webhook entries of the interleaved runs
RaceUpdates ==
    {Update("ok", e, Sender(English, NoName), Run("json", NoResponse, "allowed", TRUE)) :
        e \in {Msg("hi", NoArg), Msg("/start", RefArg(<<"1">>)),
               Msg("/start", RefArg(<<"2">>)),
               Msg("/start", <<"R", "E", "F", "3">>)}}

RaceEntries ==
    {[dict |-> TRUE, user_id |-> RawInt(1), status |-> st, username |-> "ann"] :
        st \in {"subscribed", "unsubscribed"}}

(* create_app.subgram_webhook step by step: each request in flight is a
   coroutine suspended at its awaited store calls, with the locals that the
   closures _run_start and _handle_unsubscribe read when their task runs *)

Deliveries == {1, 2}

NoFrame ==
    [pc |-> "idle", av |-> "unbound", n |-> 0, telegram_id |-> NoId,
     status |-> "other", username |-> NoName, user |-> Absent]

\* asyncio.create_task(_run_start()) / create_task(_handle_unsubscribe()):
\* the task keeps the frame whose locals it will read; uid, username and
\* user are the values the locals had when it was created
Spawned(kind, d, f) ==
    [kind |-> kind, frame |-> d, uid |-> f.telegram_id, username |-> f.username,
     user |-> IF kind = "unsubscribe" THEN f.user ELSE Absent]

\* the entries of the batches handled step by step
LoopEntries ==
    {NonDict,
     [dict |-> TRUE, user_id |-> RawNone, status |-> "subscribed", username |-> NoName]}
    \cup [dict : {TRUE}, user_id : {RawInt(1)},
          status : {"subscribed", "unsubscribed", "other"}, username : {"ann"}]
    \cup [dict : {TRUE}, user_id : {RawInt(2)}, status : {"subscribed"},
          username : {NoName}]

\* the frame lives as long as its request or a task created by it
Kept(d, f, pending) ==
    IF f.pc = "idle" /\ \A i \in 1..Len(pending) : pending[i].frame # d
    THEN NoFrame ELSE f

\* some request is running between two awaits: nothing else runs meanwhile
Running == \E d \in Deliveries : frames[d].pc = "next"

\* lines 116-131: a request with the right key and a list of entries arrives;
\* the ready of the frame's previous request have run by then
Arrive(d) ==
    /\ frames[d].pc = "idle"
    /\ seen.arrivals < MaxDeliveries
    /\ \A i \in 1..Len(ready) : ready[i].frame # d
    /\ frames' = [frames EXCEPT ![d] = [NoFrame EXCEPT !.pc = "next"]]
    /\ last' = [op |-> "arrive", frame |-> d]
    /\ UNCHANGED <<db, ready>>

\* lines 133-150 and 187 (244-257, 283): the loop takes the next entry and
\* runs to the first await of its iteration, or through the iteration when
\* it has none
Advance(d, e) ==
    /\ frames[d].pc = "next"
    /\ frames[d].n < MaxBatch
    /\ LET f == frames[d]
           tid == IF e.dict THEN _coerce_int(e.user_id) ELSE NoId
           bound == IF ~e.dict THEN f
                    ELSE IF tid = NoId THEN [f EXCEPT !.telegram_id = NoId]
                    ELSE [f EXCEPT !.telegram_id = tid, !.status = e.status,
                                   !.username = e.username]
           to == IF ~e.dict \/ tid = NoId THEN "next"
                 ELSE IF e.status \in {"subscribed", "notgetted"} THEN "ensure"
                 ELSE IF served = 1 /\ f.av = "unbound" THEN "crash"
                 ELSE IF served = 1 /\ f.av = "false" THEN "spawn"
                 ELSE IF e.status = "unsubscribed" THEN "unsub_write"
                 ELSE "next"
       IN /\ frames' = [frames EXCEPT ![d] =
                 IF to = "crash" THEN Kept(d, [bound EXCEPT !.pc = "idle"], ready)
                 ELSE IF to \in {"next", "spawn"}
                 THEN [bound EXCEPT !.pc = "next", !.n = f.n + 1]
                 ELSE [bound EXCEPT !.pc = to]]
          /\ ready' = IF to = "spawn" THEN Append(ready, Spawned("start", d, bound))
                      ELSE ready
          /\ last' = [op |-> "advance", frame |-> d, uid |-> tid,
                      status |-> e.status, start |-> (to = "spawn"),
                      crash |-> (to = "crash")]
    /\ UNCHANGED db

\* line 224 / 320: the loop is over, the request returns
Leave(d) ==
    /\ frames[d].pc = "next"
    /\ frames' = [frames EXCEPT ![d] = Kept(d, [frames[d] EXCEPT !.pc = "idle"], ready)]
    /\ last' = [op |-> "leave", frame |-> d]
    /\ UNCHANGED <<db, ready>>

\* lines 147-185 (258-259): _ensure_user_record returns; the first
\* registration creates the start task here, the second goes on to line 261
Ensured(d) ==
    /\ frames[d].pc = "ensure"
    /\ \E f \in {frames[d]} :
       \E ens \in {_ensure_user_record(db, f.telegram_id, f.username)} :
         LET av == AsBool(ens.user.exists /\ ens.user.verified)
             g == [f EXCEPT !.user = ens.user, !.av = av]
             start == served = 1 /\ av = "false"
         IN /\ db' = ens.db
            /\ frames' = [frames EXCEPT ![d] =
                   IF served = 1 THEN [g EXCEPT !.pc = "next", !.n = f.n + 1]
                   ELSE [g EXCEPT !.pc = "verify_write"]]
            /\ ready' = IF start THEN Append(ready, Spawned("start", d, g)) ELSE ready
            /\ last' = [op |-> "ensured", frame |-> d, uid |-> f.telegram_id,
                        start |-> start]

\* lines 261-281 of the second registration: set_flyer_verified(True)
\* returns, the start task is created when the record read was unverified
VerifyWrite(d) ==
    /\ frames[d].pc = "verify_write"
    /\ \E f \in {frames[d]} :
         /\ db' = set_flyer_verified(db, f.telegram_id, TRUE)
         /\ frames' = [frames EXCEPT ![d] = [f EXCEPT !.pc = "next", !.n = f.n + 1]]
         /\ ready' = IF f.av = "false" THEN Append(ready, Spawned("start", d, f))
                     ELSE ready
         /\ last' = [op |-> "verify_write", frame |-> d, uid |-> f.telegram_id,
                     start |-> (f.av = "false")]

\* line 188 / 284: set_flyer_verified(False) returns
UnsubWrite(d) ==
    /\ frames[d].pc = "unsub_write"
    /\ db' = set_flyer_verified(db, frames[d].telegram_id, FALSE)
    /\ frames' = [frames EXCEPT ![d].pc = "unsub_ensure"]
    /\ last' = [op |-> "unsub_write", frame |-> d, uid |-> frames[d].telegram_id,
                existed |-> db[frames[d].telegram_id].exists]
    /\ UNCHANGED ready

\* lines 189-220 / 285-316: _ensure_user_record returns and the
\* unsubscribe task is created
UnsubEnsure(d) ==
    /\ frames[d].pc = "unsub_ensure"
    /\ \E f \in {frames[d]} :
       \E ens \in {_ensure_user_record(db, f.telegram_id, f.username)} :
         LET g == [f EXCEPT !.user = ens.user] IN
         /\ db' = ens.db
         /\ frames' = [frames EXCEPT ![d] = [g EXCEPT !.pc = "next", !.n = f.n + 1]]
         /\ ready' = Append(ready, Spawned("unsubscribe", d, g))
         /\ last' = [op |-> "unsub_ensure", frame |-> d, uid |-> f.telegram_id]

\* the loop runs the oldest task for the first time: _run_start (152-165,
\* 169-182, 265-278) and _handle_unsubscribe (191-217, 287-313) read
\* telegram_id, chat_id, username and user from the frame as it is now
RunTask ==
    /\ ready # <<>>
    /\ \E t \in {Head(ready)} :
         last' = [op |-> "task", kind |-> t.kind, frame |-> t.frame,
                  spawned |-> [uid |-> t.uid, username |-> t.username, user |-> t.user],
                  acted |-> [uid |-> frames[t.frame].telegram_id,
                             username |-> frames[t.frame].username,
                             user |-> IF t.kind = "unsubscribe"
                                      THEN frames[t.frame].user ELSE Absent]]
    /\ ready' = Tail(ready)
    /\ frames' = [d \in Deliveries |-> Kept(d, frames[d], Tail(ready))]
    /\ UNCHANGED db

\* the updates of the calls interleaved with the deliveries
LoopUpdates ==
    {Update("ok", e, Sender(English, NoName), Run("json", NoResponse, "allowed", TRUE)) :
        e \in {Msg("hi", NoArg), Cb(<<"subgram-op">>, TRUE)}}

\* the oracle answers Ok or does not answer
LoopRuns ==
    {Run("json", Resp("ok", 200, FALSE, FALSE, FALSE), "allowed", TRUE),
     Run("timeout", NoResponse, "allowed", TRUE)}

\* what has happened to the followed user since start-up
NoSeen(verified0) ==
    [verified0 |-> verified0, arrivals |-> 0, calls |-> 0,
     deliveries |-> 0, checks |-> 0, oks |-> 0,
     starts |-> 0, overlap |-> FALSE, other |-> FALSE, stale |-> {}]

Upto(n, cap) == IF n < cap THEN n + 1 ELSE n

MidSubscribed(d) ==
    frames[d].pc \in {"ensure", "verify_write"} /\ frames[d].telegram_id \in Followed

CallInFlight(c) == inflight[c].pc # "idle" /\ inflight[c].uid \in Followed

\* the record of what the step just taken did to the followed user
Observe ==
    LET op == last'.op
        mine == op \in {"advance", "ensured", "verify_write", "unsub_write",
                        "begin", "finish"} /\ last'.uid \in Followed
        delivery == mine /\ op = "advance" /\ last'.status = "subscribed"
        check == mine /\ op = "begin" /\ ~last'.early
    IN seen' =
        [verified0 |-> seen.verified0,
         arrivals |-> IF op = "arrive" THEN seen.arrivals + 1 ELSE seen.arrivals,
         calls |-> IF op = "begin" THEN seen.calls + 1 ELSE seen.calls,
         deliveries |-> IF delivery THEN Upto(seen.deliveries, MaxDeliveries + 1)
                        ELSE seen.deliveries,
         checks |-> IF check THEN Upto(seen.checks, MaxDeliveries) ELSE seen.checks,
         \* of LoopRuns only the answer Ok makes the call write the flag
         oks |-> IF mine /\ op = "finish" /\ "set_flyer_verified" \in last'.writes
                 THEN Upto(seen.oks, MaxDeliveries) ELSE seen.oks,
         starts |-> IF mine /\ op \in {"advance", "ensured", "verify_write", "finish"}
                       /\ last'.start
                    THEN Upto(seen.starts, MaxDeliveries + 1) ELSE seen.starts,
         overlap |-> \/ seen.overlap
                     \/ delivery /\ \/ \E d \in Deliveries \ {last'.frame} : MidSubscribed(d)
                                    \/ \E c \in Slots : CallInFlight(c)
                     \/ check /\ \E d \in Deliveries : MidSubscribed(d),
         other |-> seen.other \/ (mine /\ op = "advance" /\ last'.status # "subscribed"),
         stale |-> IF mine /\ op = "unsub_write"
                   THEN {c \in Slots : inflight[c].pc = "remembered"
                                       /\ inflight[c].uid = last'.uid}
                   ELSE IF delivery THEN {}
                   ELSE IF op = "begin" THEN seen.stale \ {last'.slot}
                   ELSE seen.stale]

\* the steps of the deliveries; a request that runs between two awaits is
\* not interrupted
DeliveryNext ==
    \/ \E d \in Deliveries : \E e \in LoopEntries : Advance(d, e)
    \/ \E d \in Deliveries : Leave(d)
    \/ ~Running /\ \E d \in Deliveries : Arrive(d)
    \/ ~Running /\ \E d \in Deliveries : Ensured(d)
    \/ ~Running /\ \E d \in Deliveries : VerifyWrite(d)
    \/ ~Running /\ \E d \in Deliveries : UnsubWrite(d)
    \/ ~Running /\ \E d \in Deliveries : UnsubEnsure(d)
    \/ ~Running /\ RunTask

\* the steps of one middleware call of the followed user
CallNext ==
    \/ seen.calls < MaxCalls /\ \E up \in LoopUpdates : Begin(1, 1, up)
    \/ Remember(1)
    \/ \E run \in LoopRuns : Finish(1, run)

----------------------------------------------------------------------------

Row(v) == [Absent EXCEPT !.exists = TRUE, !.verified = v]

\* the users table found at start-up
InitStores == [Users -> {Absent, Row(FALSE), Row(TRUE)}]

Init ==
    /\ db \in InitStores
    /\ served \in {1, 2}
    /\ flyer \in {"none", "set"}
    /\ wh = WhIdle
    /\ last = NoWebhook
    /\ hist = NoHist
    /\ inflight = [c \in Slots |-> NoCall]
    /\ frames = [d \in Deliveries |-> NoFrame]
    /\ ready = <<>>
    /\ seen = NoSeen(db[1].verified)

WebhookNext ==
    /\ \/ \E r \in Requests : Receive(r.key, r.body)
       \/ \E e \in Entries : Event(e)
       \/ Return
    /\ UNCHANGED <<frames, ready, seen>>

InlineNext ==
    /\ \E u \in InlineUsers : Inline(u)
    /\ UNCHANGED <<frames, ready, seen>>

Next == WebhookNext \/ InlineNext

\* the whole gate: both paths, over any start-up store
Spec == Init /\ [][Next]_vars

\* the webhook endpoint alone
InitWebhook == Init /\ flyer = "none"
SpecWebhook == InitWebhook /\ [][WebhookNext]_vars

\* the inline path alone
InitInline == Init /\ served = 1 /\ ~db[2].verified
SpecInline == InitInline /\ [][InlineNext]_vars

\* two calls of the middleware for user 1 interleaved with each other and
\* with the webhook endpoint
RaceNext ==
    /\ \/ \E c \in Slots : \E up \in RaceUpdates : Begin(c, 1, up)
       \/ \E c \in Slots : Remember(c)
       \/ \E c \in Slots : \E run \in PlainRuns : Finish(c, run)
       \/ Receive(SecretKey, "batch")
       \/ \E e \in RaceEntries : Event(e)
       \/ Return
    /\ UNCHANGED <<frames, ready, seen>>

InitRace == Init /\ served = 1 /\ flyer = "none" /\ db[2] = Row(FALSE)
SpecRace == InitRace /\ [][RaceNext]_vars

\* the prompt policy alone, applied once to any of the blocking answers,
\* and the user's press on a button of the gender or age prompt
PromptNext ==
    /\ \/ last = NoWebhook /\ \E response \in PromptResponses : BuildPrompt(response)
       \/ \E i \in 1..Len(AgeCategories) : \E run \in PlainRuns : Press(1, i, run)
    /\ UNCHANGED <<frames, ready, seen>>

InitPrompt == Init /\ served = 1 /\ flyer = "none" /\ db = [u \in Users |-> Absent]
SpecPrompt == InitPrompt /\ [][PromptNext]_vars

\* the webhook requests, their ready and one middleware call of the
\* followed user, interleaved at their awaits
LoopNext ==
    /\ \/ DeliveryNext /\ UNCHANGED <<served, flyer, wh, hist, inflight>>
       \/ ~Running /\ CallNext /\ UNCHANGED <<frames, ready>>
    /\ Observe

\* one middleware call at a time, with every answer of the oracle and of
\* the fallback verifier
FairRemember == Remember(1) /\ UNCHANGED <<frames, ready, seen>>
FairFinish == (\E run \in OracleRuns : Finish(1, run)) /\ UNCHANGED <<frames, ready, seen>>

FairNext ==
    \/ (\E up \in LoopUpdates \cup RaceUpdates : Begin(1, 1, up))
           /\ UNCHANGED <<frames, ready, seen>>
    \/ FairRemember
    \/ FairFinish

\* a store call returns; the request to the oracle ends within
\* ClientTimeout(total=request_timeout), by an answer or by TimeoutError
Fairness == WF_vars(FairRemember) /\ WF_vars(FairFinish)

InitFair == Init /\ served = 1 /\ db[2] = Row(FALSE)
SpecFair == InitFair /\ [][FairNext]_vars /\ Fairness

InitLoop == Init /\ flyer = "none" /\ db[2] = Row(TRUE)
SpecLoop == InitLoop /\ [][LoopNext]_vars

----------------------------------------------------------------------------
(* The claims *)

\* the entry just handled by the webhook loop named a user
EntryFor(statuses) ==
    /\ last.op \in {"event", "return"}
    /\ last.uid # NoId
    /\ last.status \in statuses

\* C1: delivering the same "subscribed" entry for a user that starts
\* unverified N >= 1 times in a row triggers the start flow exactly once in
\* total.
C1_StartFlowOnce ==
    (hist.status = "subscribed" /\ hist.n >= 1 /\ ~hist.verified0)
        => hist.starts = 1

\* C2: after a subscribed/notgetted entry for u was handled, u has a record,
\* verified(u) is true, and the start flow was triggered exactly when
\* verified(u) was false (or the record absent) before.
C2_SubscribedVerifies ==
    (last.op = "event" /\ EntryFor({"subscribed", "notgetted"}))
        => /\ db[last.uid].exists
           /\ db[last.uid].verified
           /\ last.start <=> ~last.wasVerified

\* C3: a request whose batch is the single entry (u, unsubscribed) for a
\* verified user u leaves verified(u) false and sends the unsubscribed
\* notification once.
C3_UnsubscribedOnce ==
    (/\ wh.pc = "idle" /\ wh.n = 1
     /\ EntryFor({"unsubscribed"})
     /\ last.wasVerified)
        => ~db[last.uid].verified /\ last.notify

\* C4: re-delivering the same "unsubscribed" entry for u does not send the
\* unsubscribed notification more than once.
C4_NotifyAtMostOnce ==
    hist.status = "unsubscribed" => hist.notes <= 1

\* C5: an entry whose status is none of subscribed, notgetted, unsubscribed
\* changes no record, triggers no start flow and sends no notification.
C5_OtherStatusNoOp ==
    (last.op = "event" /\ EntryFor({"other"}))
        => ~last.dbChanged /\ ~last.start /\ ~last.notify

\* C6: every request is answered with {"status": true} and none ends in an
\* unhandled error; an entry that is malformed is skipped and the loop goes on.
C6_AlwaysSuccess ==
    /\ last.op \in {"receive", "event", "return"} => last.resp # "crash"
    /\ (last.op = "event" /\ last.uid = NoId)
          => wh.pc = "loop" /\ ~last.dbChanged /\ ~last.start /\ ~last.notify

\* C7: a request whose Api-Key differs from the configured secret, or whose
\* body is no JSON, is answered {"status": true} and nothing is processed:
\* the loop is not entered, no record changes, no task is created.
C7_RejectedUnprocessed ==
    (last.op = "receive" /\ (last.key # SecretKey \/ last.body = "notjson"))
        => /\ last.resp = "ok"
           /\ wh.pc = "idle"
           /\ ~last.dbChanged /\ ~last.start /\ ~last.notify

C7_Witness ==
    /\ last.op = "receive" /\ last.key = "key-2" /\ last.body = "batch"
    /\ last.resp = "ok"

C9_OkVerifies ==
    (/\ last.op = "inline" /\ last.queried
     /\ ~last.wasVerified /\ last.ref = NoId /\ last.preRef = NoId
     /\ last.transport = "json" /\ last.status = "ok" /\ last.code = 200)
        => /\ db[last.uid].exists /\ db[last.uid].verified
           /\ last.handler
           /\ last.start <=> ~last.startMsg

C9_Witness ==
    /\ last.op = "inline" /\ last.queried /\ ~last.existed
    /\ last.ref = NoId /\ last.transport = "json" /\ last.status = "ok"
    /\ last.code = 200 /\ ~last.startMsg /\ last.start
    /\ db[last.uid].verified

\* C10: when the exchange with the oracle fails (timeout, client error, body
\* that is no JSON, any exception) the client returns no response and raises
\* nothing; the retry-later prompt is sent, the verified flag is not written
\* and keeps its value, no start flow is triggered and no reward granted.
C10_NoResponseRetry ==
    (last.op = "inline" /\ last.queried /\ last.transport # "json")
        => /\ ~last.raised
           /\ last.prompt = "retry"
           /\ "set_flyer_verified" \notin last.writes
           /\ db[last.uid].verified = last.wasVerified
           /\ ~last.start /\ last.reward = NoId

C10_Witness ==
    /\ last.op = "inline" /\ last.queried /\ last.transport = "bad_json"
    /\ last.prompt = "retry" /\ ~last.raised

\* the oracle answered the latest inline event (the call did not fail)
Answered ==
    /\ last.op = "inline" /\ last.queried /\ ~last.raised
    /\ last.transport = "json"

\* the prompt policy has a prompt for the latest answer
Actionable ==
    ~_build_blocking_prompt([sponsors |-> last.sponsors, reg_url |-> last.reg_url,
                             message |-> FALSE], last.status).none

\* C11: on a Blocking verdict (warning, gender, age, register) for which the
\* prompt policy yields no prompt, the inline path treats the verdict as Ok:
\* it sets verified = true and continues to the downstream handler instead of
\* sending a block prompt.
C11_EmptyPromptIsOk ==
    (/\ Answered /\ last.code # 404
     /\ last.status \in BLOCKING_STATUSES /\ ~Actionable)
        => /\ db[last.uid].verified
           /\ last.handler
           /\ last.prompt = "none"

\* the fallback verifier let the user pass: it accepted, or there is none
FallbackPassed == flyer = "none" \/ last.flyerOut = "allowed"

\* C12: on the inline path verified is written true only when the oracle's
\* verdict for that event is Ok, or is Unknown (code 404) with the fallback
\* verifier accepting or not configured; never after a Blocking verdict, an
\* Error verdict, a missing or unrecognized status, or a missing response.
C12_VerifiedOnlyOnDefiniteVerdict ==
    (last.op = "inline" /\ "set_flyer_verified" \in last.writes)
        => /\ Answered
           /\ \/ last.status = "ok" /\ last.code # 404
              \/ /\ last.code = 404 /\ FallbackPassed
                 /\ last.status \notin BLOCKING_STATUSES \cup {"error"}

\* the oracle call of the latest inline event failed
OracleFailed ==
    last.op = "inline" /\ last.queried /\ last.transport # "json"

\* the fallback verifier was called for the latest inline event and failed
FallbackFailed ==
    /\ Answered /\ last.code = 404 /\ flyer = "set"
    /\ last.flyerOut \in {"api_error", "exception"}

\* C13: whenever the oracle call or the fallback verifier call fails, the
\* inline path ends with a block message, does not set verified = true and
\* does not invoke the downstream handler for an event that is no gate
\* callback.
C13_NoFailureGrantsAccess ==
    (OracleFailed \/ FallbackFailed)
        => /\ ~last.raised
           /\ last.prompt # "none"
           /\ "set_flyer_verified" \notin last.writes
           /\ ~last.gate => ~last.handler

\* the user of the latest inline event has a referrer: the one the event
\* carries or the one of the record
HasReferrer == last.ref # NoId \/ last.preRef # NoId

\* C14: on an Unknown verdict (code 404) the referral reward is granted when
\* the user has a referrer; when the fallback verifier rejects, the anti-fraud
\* message is sent, verified is not written and processing stops; when it
\* accepts or there is none, the event is handled as an Ok verdict
\* (verified := true, start flow on first verification, handler invoked).
C14_UnknownVerdict ==
    (Answered /\ last.code = 404)
        => /\ (HasReferrer /\ last.balanceOk) => last.reward # NoId
           /\ (flyer = "set" /\ last.flyerOut = "rejected")
                 => /\ last.prompt = "antifraud"
                    /\ "set_flyer_verified" \notin last.writes
                    /\ ~last.gate => ~last.handler
           /\ FallbackPassed
                 => /\ db[last.uid].verified
                    /\ last.handler /\ last.prompt = "none"
                    /\ last.start <=> (~last.wasVerified /\ ~last.startMsg)

\* C15: for a user with a referrer, across any number of repeated inline
\* events that each receive the same Unknown verdict, the referrer's balance
\* is incremented exactly once in total.
C15_RewardOnce ==
    (/\ hist.status = "unknown" /\ hist.referrer
     /\ hist.update.run.balanceOk)
        => hist.rewards = 1

\* C16: once referredBy(u) holds a value, no step of either path changes it,
\* also when two inline events of u with different referrer ids are in
\* flight, both having read the record before either writes.
C16_ReferrerNeverChanged ==
    [][\A u \in Users :
          db[u].referred_by # NoId => db'[u].referred_by = db[u].referred_by]_vars

\* two calls in flight that both read the record without a referrer, each
\* having assigned its own, different referrer
C16_Witness ==
    /\ inflight[1].pc = "remembered" /\ inflight[2].pc = "remembered"
    /\ inflight[1].uid = inflight[2].uid
    /\ LET r1 == _extract_referred_by(inflight[1].event, inflight[1].uid)
           r2 == _extract_referred_by(inflight[2].event, inflight[2].uid)
       IN /\ r1 # NoId /\ r2 # NoId /\ r1 # r2
          /\ inflight[1].record.referred_by = r1
          /\ inflight[2].record.referred_by = r2
          /\ db[inflight[1].uid].referred_by \in {r1, r2}

\* C17: in every reachable state, referredBy(u) is unset or a user id other
\* than u: neither record creation nor referrer assignment persists a
\* self-referral.
C17_NoSelfReferral ==
    \A u \in Users : db[u].referred_by # u

\* user 1 sent "/start ref1" and the call went through the upsert
C17_Witness ==
    \E c \in Slots :
        /\ inflight[c].pc = "remembered" /\ inflight[c].uid = 1
        /\ inflight[c].event = Msg("/start", RefArg(<<"1">>))
        /\ "create_user" \in last.writes
        /\ db[1].exists /\ db[1].referred_by = NoId

\* C18: the referrer is notified of a fake-account reward only if the balance
\* increment was persisted: when the store's balance update fails, no
\* notification is sent to the referrer and the inline path goes on without
\* raising.
C18_NotifyOnlyAfterWrite ==
    /\ (last.op = "inline" /\ last.rewardNote)
          => "update_balance" \in last.writes /\ last.reward # NoId
    /\ (Answered /\ last.code = 404 /\ HasReferrer /\ ~last.balanceOk)
          => /\ ~last.rewardNote /\ last.reward = NoId
             /\ "update_balance" \notin last.writes
             /\ ~last.raised
             /\ last.prompt # "none" \/ last.handler

\* a 404 answer for a user with a referrer whose balance write failed, the
\* call going on to verify the user
C18_Witness ==
    /\ Answered /\ last.code = 404 /\ HasReferrer /\ ~last.balanceOk
    /\ ~last.rewardNote
    /\ "set_flyer_verified" \in last.writes /\ last.handler

\* C19: every referral reward is granted to a referrer id that is non-null,
\* different from the id of the user that received the Unknown verdict, and
\* the id of a user known to the store.
C19_RewardToKnownReferrer ==
    (last.op = "inline" /\ last.reward # NoId)
        => /\ last.reward # last.uid
           /\ last.reward \in Users
           /\ db[last.reward].exists

\* C20: whenever the inline event is a gate-originated callback, the callback
\* is acknowledged and its prompt message removed exactly once, whatever the
\* outcome (language block, already verified, no response, Unknown rejected,
\* Blocking, Error, Ok).
C20_GateCallbackAckedOnce ==
    (last.op = "inline" /\ last.gate) => last.acks = 1

\* the open-link buttons of the entries of a sponsors list that pass a filter
LinkActions(sponsors, Keep(_)) ==
    LET kept == SelectSeq(sponsors.items, Keep)
    IN [i \in 1..Len(kept) |-> UrlButton(kept[i].link)]

\* the completion button that ends a sponsor prompt
Completion == CallbackButton("subgram-op")

\* an entry that is available now and has status unsubscribed
AvailableUnsubscribed(sponsor) ==
    sponsor.dict /\ sponsor.available_now = "true" /\ sponsor.status = "unsubscribed"

\* an entry that is not marked unavailable, whose status is unsubscribed or
\* absent, and that has a link
OpenTask(sponsor) ==
    /\ sponsor.dict
    /\ sponsor.available_now # "false"
    /\ sponsor.status \in {"unsubscribed", "missing"}
    /\ sponsor.link # NoLink

\* C21 as claimed: for a Warning verdict the prompt has one open-link action
\* for exactly the entries that are available now and have status
\* unsubscribed, then one completion action; no prompt when there is none.
C21_WarningPrompt ==
    (last.op = "prompt" /\ last.response.status = "warning")
        => LET links == LinkActions(last.response.sponsors, AvailableUnsubscribed)
           IN IF links = <<>> THEN last.prompt.none
              ELSE /\ ~last.prompt.none
                   /\ last.prompt.actions = links \o <<Completion>>

\* C21 amended: for a Warning verdict the prompt has one open-link action,
\* in list order, for exactly the entries that are not marked unavailable,
\* whose status is unsubscribed or absent and that have a link, then one
\* completion action; there is no prompt when no entry is left or sponsors
\* is no list. One such sponsor yields exactly 2 actions.
C21_WarningPromptOpenTasks ==
    (last.op = "prompt" /\ last.response.status = "warning")
        => LET links == LinkActions(last.response.sponsors, OpenTask)
           IN IF ~last.response.sponsors.list \/ links = <<>> THEN last.prompt.none
              ELSE /\ ~last.prompt.none
                   /\ last.prompt.actions = links \o <<Completion>>
                   /\ Len(links) = 1 => Len(last.prompt.actions) = 2

\* two sponsors of which one is completed: one link and the completion
C21_Witness ==
    /\ last.op = "prompt" /\ last.response.status = "warning"
    /\ last.response.sponsors =
          SponsorList(<<Sponsor("true", "subscribed", "L1"),
                        Sponsor("true", "unsubscribed", "L2")>>)
    /\ last.prompt.actions = <<UrlButton("L2"), Completion>>

\* C22 as claimed: for every Register verdict the prompt has one action that
\* opens the registration URL and ends with a continue/completion action;
\* the actions of the sponsor ready, when there are any, are in the same
\* prompt.
C22_RegisterPrompt ==
    (last.op = "prompt" /\ last.response.status = "register")
        => LET actions == last.prompt.actions
               links == LinkActions(last.response.sponsors, OpenTask)
           IN /\ ~last.prompt.none
              /\ Cardinality({i \in 1..Len(actions) : actions[i] = WebAppButton}) = 1
              /\ actions[Len(actions)] = Completion
              /\ \A j \in 1..Len(links) : \E i \in 1..Len(actions) : actions[i] = links[j]

\* C22 amended: for a Register verdict that carries a registration URL the
\* prompt is the action opening that URL, then one action per sponsor task,
\* then one continue/completion action; without a registration URL it is
\* the sponsor prompt alone, and no prompt when there is no sponsor task
\* either.
C22_RegisterPromptWithUrl ==
    (last.op = "prompt" /\ last.response.status = "register")
        => LET links == LinkActions(last.response.sponsors, OpenTask)
           IN IF last.response.reg_url
              THEN /\ ~last.prompt.none
                   /\ last.prompt.actions = <<WebAppButton>> \o links \o <<Completion>>
              ELSE IF links # <<>>
              THEN /\ ~last.prompt.none
                   /\ last.prompt.actions = links \o <<Completion>>
              ELSE last.prompt.none

\* a registration URL and one sponsor task merged into one prompt
C22_Witness ==
    /\ last.op = "prompt" /\ last.response.status = "register"
    /\ last.response.reg_url
    /\ last.response.sponsors = SponsorList(<<Sponsor("true", "unsubscribed", "L1")>>)
    /\ last.prompt.actions = <<WebAppButton, UrlButton("L1"), Completion>>

\* C23: whenever the webhook writes the verified flag of a user, the record
\* of that user exists at the time of the write (it was there or the same
\* entry created it before).
C23_RecordBeforeTransition ==
    last.op = "event"
        => \A i \in 1..Len(last.writes) :
              last.writes[i].call = "set_flyer_verified" => last.writes[i].existed

\* every webhook request has returned and no middleware call is in flight
Quiet ==
    /\ \A d \in Deliveries : frames[d].pc = "idle"
    /\ \A c \in Slots : inflight[c].pc = "idle"

\* C24: after two deliveries of the "subscribed" event for the followed
\* user, initially unverified, that were in flight together, and nothing
\* else for that user, the start flow was triggered exactly once and the
\* user is verified.
C24_ConcurrentDeliveriesStartOnce ==
    (/\ Quiet
     /\ ~seen.verified0 /\ seen.deliveries = 2 /\ seen.overlap
     /\ seen.checks = 0 /\ ~seen.other)
        => seen.starts = 1 /\ db[1].verified

\* C28: after one inline check that received Ok and one "subscribed"
\* delivery for the followed user, initially unverified, that were in flight
\* together, and nothing else for that user, the start flow was triggered
\* exactly once in total.
C28_InlineAndWebhookStartOnce ==
    (/\ Quiet
     /\ ~seen.verified0 /\ seen.deliveries = 1 /\ seen.overlap
     /\ seen.checks = 1 /\ seen.oks = 1 /\ ~seen.other)
        => seen.starts = 1

\* C29: an inline check of the followed user whose oracle query was issued
\* before an "unsubscribed" event for that user was handled, with no
\* "subscribed" delivery since, does not write the verified flag and leaves
\* the user unverified.
C29_StaleCheckCannotVerify ==
    (last.op = "finish" /\ last.slot \in seen.stale)
        => "set_flyer_verified" \notin last.writes /\ ~db[last.uid].verified

\* C30: a task created by the webhook acts, when it first runs, on the
\* user id, chat id, username and user record of the entry that created it.
C30_TaskActsOnItsEntry ==
    last.op = "task" => last.acted = last.spawned

\* the call that just ended got no answer from the oracle, or its fallback
\* check failed
CallTimedOut ==
    \/ last.status = "none"
    \/ last.code = 404 /\ flyer = "set" /\ last.flyerOut \in {"api_error", "exception"}

\* the verdict of the call that just ended is definite: Ok, or Unknown with
\* the fallback verifier accepting or not configured
DefiniteVerdict ==
    \/ last.status = "ok" /\ last.code # 404
    \/ /\ last.code = 404 /\ last.status \notin BLOCKING_STATUSES \cup {"error"}
       /\ flyer = "none" \/ last.flyerOut = "allowed"

\* every call that has started ends
C25_Decides == (inflight[1].pc # "idle") ~> (inflight[1].pc = "idle")

\* C25: every inline call that has started reaches its decision; a call
\* whose oracle or fallback request timed out or failed is treated as
\* NoResponse (retry prompt, no write), and the verified flag is written
\* only after a definite verdict.
C25_DecidesWithoutAmbiguity ==
    /\ C25_Decides
    /\ [](last.op = "finish" /\ CallTimedOut
             => last.prompt = "retry" /\ "set_flyer_verified" \notin last.writes)
    /\ [](last.op = "finish" /\ "set_flyer_verified" \in last.writes
             => DefiniteVerdict)

\* C26: on an Error verdict (status "error", code other than 404) the inline
\* path sends the block prompt with the oracle's message, or with the
\* default text when the answer has none, does not write the verified flag,
\* triggers no start flow, and invokes the handler exactly when the event is
\* a gate callback.
C26_ErrorVerdict ==
    (Answered /\ last.status = "error" /\ last.code # 404)
        => /\ last.prompt = (IF last.message THEN "message" ELSE "error")
           /\ "set_flyer_verified" \notin last.writes
           /\ db[last.uid].verified = last.wasVerified
           /\ ~last.start
           /\ last.handler <=> last.gate

\* an Error verdict with a message, for a message event: prompt, no handler
C26_Witness ==
    /\ Answered /\ last.status = "error" /\ last.code = 200 /\ last.message
    /\ ~last.gate /\ last.prompt = "message" /\ ~last.handler
    /\ ~db[last.uid].verified

\* C27: the gender prompt has exactly 2 choices and the age prompt exactly
\* 6, all different; a press on any of them is a gate callback, and the
\* query to the oracle made for it carries the pressed value as gender
\* (resp. age) and no other demographic answer.
C27_DemographicRoundTrip ==
    /\ (last.op = "prompt" /\ last.response.status \in {"gender", "age"})
          => LET actions == last.prompt.actions IN
             /\ ~last.prompt.none
             /\ Len(actions) = (IF last.response.status = "gender" THEN 2 ELSE 6)
             /\ \A i, j \in 1..Len(actions) : actions[i] = actions[j] => i = j
             /\ \A i \in 1..Len(actions) : actions[i].kind = "callback"
             /\ {actions[i].target[3] : i \in 1..Len(actions)}
                   = (IF last.response.status = "gender" THEN {"male", "female"}
                      ELSE {"c1", "c2", "c3", "c4", "c5", "c6"})
    /\ last.op = "press"
          => /\ last.gate /\ last.queried
             /\ last.query.gender = (IF last.shown = "gender" THEN last.data[3] ELSE "")
             /\ last.query.age = (IF last.shown = "age" THEN last.data[3] ELSE "")

\* the bracket c3 pressed on the age prompt reaches the oracle as age
C27_Witness ==
    /\ last.op = "press" /\ last.shown = "age" /\ last.choices = 6
    /\ last.data = <<"subgram", "age", "c3">>
    /\ last.queried /\ last.query.age = "c3" /\ last.query.gender = ""

\* C31: the store writes and side effects of every batch entry are those of
\* the same entry delivered alone, in a one-entry batch, against the same
\* store.
C31_EntriesDoNotInterfere ==
    last.op = "event" => last.alone

\* C32: a reward triggered by an Unknown verdict for a user whose record
\* holds a referrer goes to that referrer, whatever referrer id the event
\* carries.
C32_RewardToPersistedReferrer ==
    (Answered /\ last.code = 404 /\ last.preRef # NoId /\ last.balanceOk)
        => last.reward = last.preRef

\* C33: for an event with an identified user that is no gate callback, the
\* handler is invoked only if the user was verified when the record was
\* read or this invocation wrote verified = true.
C33_GateSafety ==
    (last.op = "inline" /\ last.ctx # "nouser" /\ ~last.gate /\ last.handler)
        => \/ last.wasVerified
           \/ "set_flyer_verified" \in last.writes /\ db[last.uid].verified

====
